---- MODULE Spec2Model ----
(***************************************************************************)
(* Job-Application-Container (src/app.py): the Application Repository      *)
(* (create / updateStatus / delete / uploadResume over a record table and  *)
(* a blob bucket) and the dashboard aggregations of build_dashboard.       *)
(*                                                                         *)
(* Strings are sequences of one-character strings, so that replace, split, *)
(* unquote and concatenation are computed as the code computes them.       *)
(***************************************************************************)
EXTENDS Integers, Sequences, FiniteSets, TLC

VARIABLES
    table,      \* Record Store: the rows of job_applications
    nextId,     \* Record Store: the id the next inserted row gets
    blobs,      \* Blob Store: the keys held by the "resumes" bucket
    snapshot,   \* id -> resume_url of every row a rendered page may still show
    now,        \* the wall clock read by datetime.now()
    last,       \* the most recent repository operation and its outcome
    keyIn,      \* KeySpec: the inputs of two upload_resume_to_storage calls
    keyOut,     \* KeySpec: the storage keys the two calls generated
    df,         \* DashSpec: the DataFrame handed to build_dashboard
    dash        \* DashSpec: what build_dashboard computed

vars == <<table, nextId, blobs, snapshot, now, last, keyIn, keyOut, df, dash>>

repoVars == <<table, nextId, blobs, snapshot, now, last>>
keyVars  == <<keyIn, keyOut>>
dashVars == <<df, dash>>

----------------------------------------------------------------------------
(* Bounds of the model *)

MaxRecords == 2     \* rows ever inserted
MaxClock == 1       \* the repository's clock takes readings 0 .. MaxClock
MaxKeyClock == 3    \* the two uploads of KeySpec happen at readings 0 .. MaxKeyClock
MaxDfLen == 3       \* rows of the DataFrame given to build_dashboard
MaxDfClock == 2     \* applied_date of those rows: clock readings 0 .. MaxDfClock

FirstDay == 30      \* ordinal of the first clock day in 2024 (0 = 1 Jan): 31 Jan
DfDayStep == 30     \* days between the applied_date days of the DataFrame
MaxCompanies == 11  \* companies of the DataFrame whose top companies are ranked

----------------------------------------------------------------------------
(* Strings *)

None == <<>>        \* Python None / the empty string: both falsy

RECURSIVE Replace(_, _, _)
\* str.replace(old, new) for single characters
Replace(s, old, new) ==
    IF s = <<>> THEN <<>>
    ELSE <<(IF Head(s) = old THEN new ELSE Head(s))>> \o Replace(Tail(s), old, new)

\* the positions at which pat occurs in s
Occurrences(s, pat) ==
    { i \in 1..(Len(s) - Len(pat) + 1) : SubSeq(s, i, i + Len(pat) - 1) = pat }

\* pat in s
Contains(s, pat) == Occurrences(s, pat) # {}

Max(S) == CHOOSE x \in S : \A y \in S : y <= x

\* s.split(pat)[-1]
SplitLast(s, pat) ==
    IF Contains(s, pat)
    THEN SubSeq(s, Max(Occurrences(s, pat)) + Len(pat), Len(s))
    ELSE s

DigitChars == <<"0", "1", "2", "3", "4", "5", "6", "7", "8", "9">>
HexChars == DigitChars \o <<"A", "B", "C", "D", "E", "F">>

Digit(n) == DigitChars[n + 1]
Pad2(n) == <<Digit((n \div 10) % 10), Digit(n % 10)>>
Pad4(n) == Pad2(n \div 100) \o Pad2(n % 100)

\* the characters percent-encoding touches in this model, with their codes
Reserved == {" ", "%"}
Code(c) == IF c = " " THEN 32 ELSE 37
HexVal(c) == CHOOSE i \in 0..15 : HexChars[i + 1] = c
IsHex(c) == \E i \in 1..16 : HexChars[i] = c

RECURSIVE Quote(_)
\* percent-encoding of a key embedded in a URL
Quote(s) ==
    IF s = <<>> THEN <<>>
    ELSE (IF Head(s) \in Reserved
          THEN <<"%", HexChars[(Code(Head(s)) \div 16) + 1], HexChars[(Code(Head(s)) % 16) + 1]>>
          ELSE <<Head(s)>>) \o Quote(Tail(s))

RECURSIVE Unquote(_)
\* urllib.parse.unquote: %XX becomes the character with that code
Unquote(s) ==
    IF s = <<>> THEN <<>>
    ELSE IF /\ Head(s) = "%" /\ Len(s) >= 3 /\ IsHex(s[2]) /\ IsHex(s[3])
            /\ \E c \in Reserved : Code(c) = 16 * HexVal(s[2]) + HexVal(s[3])
         THEN <<(CHOOSE c \in Reserved : Code(c) = 16 * HexVal(s[2]) + HexVal(s[3]))>>
              \o Unquote(SubSeq(s, 4, Len(s)))
         ELSE <<Head(s)>> \o Unquote(Tail(s))

----------------------------------------------------------------------------
(* Clock and calendar (year 2024) *)

MonthLen == <<31, 29, 31, 30, 31, 30, 31, 31, 30, 31, 30, 31>>

RECURSIVE MonthOf(_, _)
\* the month (1..12) of the day with ordinal d, searching from month m
MonthOf(d, m) == IF d < MonthLen[m] THEN m ELSE MonthOf(d - MonthLen[m], m + 1)

RECURSIVE DayOfMonth(_, _)
DayOfMonth(d, m) == IF d < MonthLen[m] THEN d + 1 ELSE DayOfMonth(d - MonthLen[m], m + 1)

\* the i-th clock reading: seconds 0 and 1 of consecutive days from FirstDay on
ClockReading(i) == [day |-> FirstDay + (i \div 2), sec |-> i % 2]

Times == { ClockReading(i) : i \in 0..MaxClock }

\* t1 <= t2 on datetimes
TimeLE(t1, t2) == t1.day < t2.day \/ (t1.day = t2.day /\ t1.sec <= t2.sec)

\* datetime.strftime("%Y%m%d_%H%M%S")
Strftime(t) ==
    Pad4(2024) \o Pad2(MonthOf(t.day, 1)) \o Pad2(DayOfMonth(t.day, 1)) \o <<"_">>
    \o Pad2(t.sec \div 3600) \o Pad2((t.sec \div 60) % 60) \o Pad2(t.sec % 60)

----------------------------------------------------------------------------
(* The Application Repository *)

STATUS_OPTIONS == <<"Applied", "Accepted", "Withdrawn", "Rejected">>

StatusSet == { STATUS_OPTIONS[i] : i \in 1..Len(STATUS_OPTIONS) }

\* status values the callers of this model pass: two of the enum, one outside it
StatusInputs == {STATUS_OPTIONS[1], STATUS_OPTIONS[2], "Pending"}

\* the form's status: the selectbox default, or a value outside the enum
FormStatusInputs == {STATUS_OPTIONS[1], "Pending"}

\* text typed into the form: empty, or a name
Companies == { <<>>, <<"A", " ", "B">> }
Roles == { <<>>, <<"D">> }

NoFile == [present |-> FALSE, name |-> <<>>]
FileNames == { <<"c", "v">> }
Files == {NoFile} \cup { [present |-> TRUE, name |-> n] : n \in FileNames }

\* "/resumes/": the bucket segment of a public URL
ResumesMarker == <<"/", "r", "e", "s", "u", "m", "e", "s", "/">>

\* get_public_url(file_path): the project's public prefix, the bucket, the encoded key
PublicUrl(file_path) == <<"u">> \o ResumesMarker \o Quote(file_path)

\* file_path = f"{company_name.replace(' ', '_')}_{timestamp}_{file_name}"
StorageKeyWithoutTimestamp(company_name, t, file_name) ==
    Replace(company_name, " ", "_") \o <<"_">> \o file_name
StorageKey(company_name, t, file_name) ==
    Replace(company_name, " ", "_") \o <<"_">> \o Strftime(t) \o <<"_">> \o file_name

Call(name, ok) == [call |-> name, ok |-> ok]

\* upload_resume_to_storage: (public_url, file_path), or (None, None) when the
\* upload raises; the bucket refuses a key it already holds (no upsert)
UploadResume(uploaded_file, company_name, t, ok) ==
    LET file_path == StorageKey(company_name, t, uploaded_file.name)
    IN  IF ok /\ file_path \notin blobs
        THEN [url |-> PublicUrl(file_path), path |-> file_path, stored |-> {file_path},
              calls |-> <<Call("upload", TRUE)>>]
        ELSE [url |-> None, path |-> None, stored |-> {},
              calls |-> <<Call("upload", FALSE)>>]

\* status not in STATUS_OPTIONS
AnyStatusValid(status) == TRUE
ValidStatus(status) == status \in StatusSet

\* the row insert_job_application sends
NewRow(company, role, status, resume_url, t) ==
    [id |-> nextId, company_name |-> company, role |-> role, status |-> status,
     resume_url |-> resume_url, applied_date |-> t]

\* insert_job_application: True after the insert, False on an invalid status
\* or when the insert raises
InsertJobApplication(company, role, status, resume_url, t, ok) ==
    IF ~ValidStatus(status)
    THEN [ret |-> "False", rows |-> {}, calls |-> <<>>]
    ELSE IF ~ok
    THEN [ret |-> "False", rows |-> {}, calls |-> <<Call("insert", FALSE)>>]
    ELSE [ret |-> "True", rows |-> {NewRow(company, role, status, resume_url, t)},
          calls |-> <<Call("insert", TRUE)>>]

Exists(app_id) == \E r \in table : r.id = app_id

\* the record of an operation: what was asked, what it returned, the store and
\* bucket calls it issued in order
Op(op, app_id, missing, status, file, ret, calls) ==
    [op |-> op, app_id |-> app_id, missing |-> missing, status |-> status,
     file |-> file, ret |-> ret, calls |-> calls]

\* no operation: the script run has handled no widget event (yet)
NoOp == Op("none", 0, FALSE, "", FALSE, "None", <<>>)

\* "if not company or not role"
MissingCompanyOnly(company, role) == company = <<>>
MissingField(company, role) == company = <<>> \/ role = <<>>

\* "if uploaded_file: ... if not resume_url: st.stop()"
UploadNeverAborts(uploaded_file, resume_url) == FALSE
UploadAborts(uploaded_file, resume_url) == uploaded_file.present /\ resume_url = None

\* the sidebar form's submit handler (create); the upload and the insert read the
\* clock within one reading of the model; upOk and insOk are whether those
\* calls succeed
Create(company, role, status, uploaded_file) ==
    /\ last = NoOp
    /\ UNCHANGED <<now, keyVars, dashVars>>
    /\ IF MissingField(company, role)
       THEN /\ last' = Op("create", 0, company = <<>> \/ role = <<>>, status,
                          uploaded_file.present, "Required", <<>>)
            /\ UNCHANGED <<table, nextId, blobs, snapshot>>
       ELSE \E upOk \in (IF uploaded_file.present THEN BOOLEAN ELSE {TRUE}) :
            /\ LET up == IF uploaded_file.present
                         THEN UploadResume(uploaded_file, company, now, upOk)
                         ELSE [url |-> None, path |-> None, stored |-> {}, calls |-> <<>>]
               IN  IF UploadAborts(uploaded_file, up.url)
                   THEN \* st.stop()
                        /\ last' = Op("create", 0, company = <<>> \/ role = <<>>, status,
                                      TRUE, "UploadFailed", up.calls)
                        /\ UNCHANGED <<table, nextId, blobs, snapshot>>
                   ELSE \E insOk \in BOOLEAN :
                        LET ins == InsertJobApplication(company, role, status, up.url,
                                                        now, insOk)
                        IN  /\ ins.rows # {} => nextId <= MaxRecords
                            /\ blobs' = blobs \cup up.stored
                            /\ table' = table \cup ins.rows
                            /\ nextId' = nextId + Cardinality(ins.rows)
                            /\ snapshot' = IF ins.rows = {} THEN snapshot
                                           ELSE Append(snapshot, up.url)
                            /\ last' = Op("create", IF ins.rows = {} THEN 0 ELSE nextId,
                                          company = <<>> \/ role = <<>>, status,
                                          uploaded_file.present,
                                          ins.ret, up.calls \o ins.calls)

\* .update({"status": new_status}).eq("id", app_id): every row the filter matches
UpdateAlsoTouchesDate(rows, app_id, new_status, t) ==
    { IF r.id = app_id THEN [r EXCEPT !.status = new_status, !.applied_date = t] ELSE r
        : r \in rows }
UpdateRows(rows, app_id, new_status, t) ==
    { IF r.id = app_id THEN [r EXCEPT !.status = new_status] ELSE r : r \in rows }

\* update_application_status; ok is whether the store's update call succeeds
UpdateStatus(app_id, new_status) ==
    /\ last = NoOp
    /\ UNCHANGED <<nextId, blobs, snapshot, now, keyVars, dashVars>>
    /\ IF ~ValidStatus(new_status)
       THEN /\ table' = table
            /\ last' = Op("update", app_id, FALSE, new_status, FALSE, "False", <<>>)
       ELSE \E ok \in BOOLEAN :
            IF ~ok
            THEN /\ table' = table
                 /\ last' = Op("update", app_id, FALSE, new_status, FALSE,
                               "False", <<Call("update", FALSE)>>)
            ELSE /\ table' = UpdateRows(table, app_id, new_status, now)
                 /\ last' = Op("update", app_id, FALSE, new_status, FALSE,
                               "True", <<Call("update", TRUE)>>)

\* the key delete_application removes: unquote(resume_url.split("/resumes/")[-1])
RemovalKey(resume_url) ==
    IF resume_url # None /\ Contains(resume_url, ResumesMarker)
    THEN Unquote(SplitLast(resume_url, ResumesMarker))
    ELSE None

\* the calls delete_application makes, in order: the blob removal (when the
\* record has a resume), whose failure is caught, then the row delete
DeleteCallsAbortOnRemoveFailure(file_path, rmOk, delOk) ==
    IF file_path # None
    THEN IF rmOk THEN <<Call("remove", TRUE), Call("delete", delOk)>>
         ELSE <<Call("remove", FALSE)>>
    ELSE <<Call("delete", delOk)>>
DeleteCalls(file_path, rmOk, delOk) ==
    (IF file_path # None THEN <<Call("remove", rmOk)>> ELSE <<>>)
    \o <<Call("delete", delOk)>>

\* delete_application, called with the resume_url the page shows for app_id;
\* rmOk and delOk are whether the bucket's remove and the store's delete succeed
Delete(app_id) ==
    /\ last = NoOp
    /\ LET resume_url == snapshot[app_id]
           file_path == RemovalKey(resume_url)
       IN  \E rmOk \in (IF file_path # None THEN BOOLEAN ELSE {TRUE}),
           delOk \in BOOLEAN :
        LET calls == DeleteCalls(file_path, rmOk, delOk)
            removed == Call("remove", TRUE) \in { calls[i] : i \in 1..Len(calls) }
            deleted == Call("delete", TRUE) \in { calls[i] : i \in 1..Len(calls) }
        IN  /\ UNCHANGED <<nextId, snapshot, now, keyVars, dashVars>>
            /\ blobs' = IF removed THEN blobs \ {file_path} ELSE blobs
            /\ table' = IF deleted THEN { r \in table : r.id # app_id } ELSE table
            /\ last' = Op("delete", app_id, FALSE, "", resume_url # None,
                          IF deleted THEN "True" ELSE "False", calls)

\* the script run that handled the event ends (st.rerun(), st.stop() or the end
\* of the script); each run handles one widget event
EndRun ==
    /\ last # NoOp
    /\ last' = NoOp
    /\ UNCHANGED <<table, nextId, blobs, snapshot, now, keyVars, dashVars>>

\* time passes between two widget events
Tick ==
    /\ last = NoOp
    /\ \E t \in Times : TimeLE(now, t) /\ t # now /\ now' = t
    /\ UNCHANGED <<table, nextId, blobs, snapshot, last, keyVars, dashVars>>

RepoInit ==
    /\ table = {}
    /\ nextId = 1
    /\ blobs = {}
    /\ snapshot = <<>>
    /\ now = [day |-> FirstDay, sec |-> 0]
    /\ last = NoOp

KeyIdle == keyIn = <<>> /\ keyOut = <<>>

\* build_dashboard has not run
NotRendered ==
    [done |-> FALSE, start_date |-> 0, end_date |-> 0, empty |-> TRUE,
     monthly |-> <<>>, status_counts |-> <<>>, role_grp |-> <<>>,
     top_rank |-> <<>>, top_co |-> <<>>]

DashIdle == df = <<>> /\ dash = NotRendered

Init == RepoInit /\ KeyIdle /\ DashIdle

Next ==
    \/ \E company \in Companies, role \in Roles, status \in FormStatusInputs,
          uploaded_file \in Files :
            Create(company, role, status, uploaded_file)
    \/ \E app_id \in DOMAIN snapshot, new_status \in StatusInputs :
            UpdateStatus(app_id, new_status)
    \/ \E app_id \in DOMAIN snapshot : Delete(app_id)
    \/ EndRun
    \/ Tick

Spec == Init /\ [][Next]_vars

----------------------------------------------------------------------------
(* Storage keys of two uploads: KeySpec *)

KeyCompanies == { <<"A", " ", "B">>, <<"A", "_", "B">>, <<"A">> }
KeyFileNames == { <<"c", "v">>, <<"_", "c", "v">> }
KeyTimes == { ClockReading(i) : i \in 0..MaxKeyClock }

\* what one upload_resume_to_storage call is given, and the clock it reads
Uploads == [company_name : KeyCompanies, file_name : KeyFileNames, t : KeyTimes]

KeyInit ==
    /\ RepoInit /\ DashIdle
    /\ keyIn \in Uploads \X Uploads
    /\ keyOut = <<>>

\* both calls compute their file_path
GenerateKeys ==
    /\ keyOut = <<>>
    /\ keyOut' = << StorageKey(keyIn[1].company_name, keyIn[1].t, keyIn[1].file_name),
                    StorageKey(keyIn[2].company_name, keyIn[2].t, keyIn[2].file_name) >>
    /\ UNCHANGED <<repoVars, keyIn, dashVars>>

KeyNext == GenerateKeys

KeySpec == KeyInit /\ [][KeyNext]_vars

----------------------------------------------------------------------------
(* The dashboard aggregations: DashSpec *)

\* the columns of the DataFrame build_dashboard reads here; the rows come from
\* fetch_all_applications: non-empty names, and three of the stored statuses
DfCompanies == { <<"A">> }
DfRoles == { <<"Z">>, <<"M">> }
DfStatuses == {STATUS_OPTIONS[1], STATUS_OPTIONS[2], STATUS_OPTIONS[4]}
\* the i-th applied_date: seconds 0 and 1 of days DfDayStep apart (31 Jan, 1 Mar, ..)
DfReading(i) == [day |-> FirstDay + DfDayStep * (i \div 2), sec |-> i % 2]
DfDates == { DfReading(i) : i \in 0..MaxDfClock }
DfRows == [company_name : DfCompanies, role : DfRoles, status : DfStatuses,
           applied_date : DfDates]

\* the date the filter widgets can be set to
DfDays == { t.day : t \in DfDates }

\* .order("applied_date", desc=True): newest first, equal dates in any order
NewestFirst(rows) ==
    \A i \in 1..(Len(rows) - 1) : TimeLE(rows[i + 1].applied_date, rows[i].applied_date)

\* characters in code-point order, for the comparison of strings
AsciiOrder == <<" ", "%", "/", "A", "B", "D", "M", "Z", "_", "c", "v">>
CharCode(c) == CHOOSE i \in 1..Len(AsciiOrder) : AsciiOrder[i] = c

RECURSIVE StrLess(_, _)
\* a < b on strings
StrLess(a, b) ==
    IF b = <<>> THEN FALSE
    ELSE IF a = <<>> THEN TRUE
    ELSE IF Head(a) # Head(b) THEN CharCode(Head(a)) < CharCode(Head(b))
    ELSE StrLess(Tail(a), Tail(b))

\* mask = (date >= start_date) & (date <= end_date); df = df[mask]
DateFilterEndExclusive(rows, start_date, end_date) ==
    SelectSeq(rows, LAMBDA r : r.applied_date.day >= start_date
                               /\ r.applied_date.day < end_date)
DateFilter(rows, start_date, end_date) ==
    SelectSeq(rows, LAMBDA r : r.applied_date.day >= start_date
                               /\ r.applied_date.day <= end_date)

Range(seq) == { seq[i] : i \in 1..Len(seq) }

\* the number of rows of the frame that are in the set S
CountRows(rows, S) == Cardinality({ i \in 1..Len(rows) : rows[i] \in S })

\* the permutations of 1..n
Perms(n) == { p \in [1..n -> 1..n] : \A i, j \in 1..n : p[i] = p[j] => i = j }

\* the rearrangements of seq
Arrangements(seq) == { [i \in 1..Len(seq) |-> seq[p[i]]] : p \in Perms(Len(seq)) }

\* the groups of a groupby("role"), in the order of their sorted keys
SortedByRole(groups) ==
    CHOOSE out \in [1..Cardinality(groups) -> groups] :
        \A i, j \in 1..Cardinality(groups) : i < j => StrLess(out[i].role, out[j].role)

\* the statuses df["status"].value_counts() has an entry for: those that occur
CountedStatuses(rows) == { r.status : r \in Range(rows) }

\* df["status"].value_counts().reset_index(): the entries, largest count first,
\* equal counts in an order the library does not promise
ValueCounts(rows) ==
    LET entries == { [status |-> st,
                      count |-> CountRows(rows, { r \in Range(rows) : r.status = st })] :
                        st \in CountedStatuses(rows) }
    IN  { out \in [1..Cardinality(entries) -> entries] :
            /\ \A i, j \in 1..Cardinality(entries) : out[i] = out[j] => i = j
            /\ \A i \in 1..(Cardinality(entries) - 1) : out[i].count >= out[i + 1].count }

\* a rate accepted / total * 100, kept as a fraction
Rate(accepted, total) == [num |-> accepted * 100, den |-> total]
RateLE(x, y) == x.num * y.den <= y.num * x.den
RateGE(x, y) == RateLE(y, x)

\* df.groupby("role").apply(...).reset_index() with the rate column: one row per
\* role, in the order of the sorted group keys
RoleGroups(rows) ==
    LET group(role) ==
            LET total == CountRows(rows, { r \in Range(rows) : r.role = role })
                accepted == CountRows(rows, { r \in Range(rows) :
                                                r.role = role /\ r.status = "Accepted" })
            IN  [role |-> role, total |-> total, accepted |-> accepted,
                 rate |-> Rate(accepted, total)]
    IN  SortedByRole({ group(r.role) : r \in Range(rows) })

\* the order sort_values("rate", ascending=True) asks for
RateOrderDescending(x, y) == RateGE(x.rate, y.rate)
RateOrder(x, y) == RateLE(x.rate, y.rate)

\* role_grp.sort_values("rate", ascending=True): the default sort is not known to
\* be stable, so every arrangement with the rates in order is a possible result
SortByRate(groups) ==
    { out \in Arrangements(groups) :
        \A i \in 1..(Len(groups) - 1) : RateOrder(out[i], out[i + 1]) }

\* applied_date.dt.to_period("M"): the calendar month of a datetime
ToPeriod(t) == [year |-> 2024, month |-> MonthOf(t.day, 1)]

\* the order of Period values, in which groupby("month") sorts its keys
PeriodOrderDescending(p, q) ==
    p.year > q.year \/ (p.year = q.year /\ p.month > q.month)
PeriodLess(p, q) ==
    p.year < q.year \/ (p.year = q.year /\ p.month < q.month)

MonthAbbr == << <<"J", "a", "n">>, <<"F", "e", "b">>, <<"M", "a", "r">>,
                <<"A", "p", "r">>, <<"M", "a", "y">>, <<"J", "u", "n">>,
                <<"J", "u", "l">>, <<"A", "u", "g">>, <<"S", "e", "p">>,
                <<"O", "c", "t">>, <<"N", "o", "v">>, <<"D", "e", "c">> >>

\* Period.strftime("%b %Y")
MonthStr(p) == MonthAbbr[p.month] \o <<" ">> \o Pad4(p.year)

\* monthly.groupby("month").apply(...).reset_index() with the rate and month_str
\* columns: one row per month that has a row, in the order of the sorted keys
MonthlyGroups(rows) ==
    LET group(month) ==
            LET total == CountRows(rows, { r \in Range(rows) :
                                            ToPeriod(r.applied_date) = month })
                accepted == CountRows(rows, { r \in Range(rows) :
                                                /\ ToPeriod(r.applied_date) = month
                                                /\ r.status = "Accepted" })
            IN  [month |-> month, total |-> total, accepted |-> accepted,
                 rate |-> Rate(accepted, total), month_str |-> MonthStr(month)]
        groups == { group(ToPeriod(r.applied_date)) : r \in Range(rows) }
    IN  CHOOSE out \in [1..Cardinality(groups) -> groups] :
            \A i, j \in 1..Cardinality(groups) :
                i < j => PeriodLess(out[i].month, out[j].month)

\* .head(10)
TOP_N == 10

\* the entries of df["company_name"].value_counts(): one per company that occurs
CompanyCounts(rows) ==
    { [company |-> c,
       count |-> CountRows(rows, { r \in Range(rows) : r.company_name = c })] :
        c \in { r.company_name : r \in Range(rows) } }

RECURSIVE SortedOrders(_, _)
\* the results a sort of the entries by count may give, smallest count first when
\* ascending and largest first otherwise; the sort is not known to be stable, so
\* entries of equal count come in any order
SortedOrders(entries, ascending) ==
    IF entries = {} THEN { <<>> }
    ELSE LET first == { e \in entries : \A f \in entries :
                            IF ascending THEN e.count <= f.count
                                         ELSE e.count >= f.count }
         IN  UNION { { <<e>> \o rest : rest \in SortedOrders(entries \ {e}, ascending) } :
                        e \in first }

\* seq.head(n)
HeadRowsOneMore(seq, n) == SubSeq(seq, 1, IF Len(seq) < n + 1 THEN Len(seq) ELSE n + 1)
HeadRows(seq, n) == SubSeq(seq, 1, IF Len(seq) < n THEN Len(seq) ELSE n)

\* df["company_name"].value_counts().head(10).reset_index(): the ranking
TopRanking(rows) ==
    { HeadRows(counts, TOP_N) : counts \in SortedOrders(CompanyCounts(rows), FALSE) }

\* top_co.sort_values("count", ascending=True): the displayed sequence
SortByCount(top_co) == SortedOrders(Range(top_co), TRUE)

\* build_dashboard(df) with the filter widgets at start_date and end_date
BuildDashboard(start_date, end_date) ==
    /\ ~dash.done
    /\ UNCHANGED <<repoVars, keyVars, df>>
    /\ LET rows == DateFilter(df, start_date, end_date)
           monthly == MonthlyGroups(rows)
       IN  IF rows = <<>>
           THEN \* "No applications in the selected date range": return
                dash' = [NotRendered EXCEPT !.done = TRUE, !.start_date = start_date,
                                            !.end_date = end_date]
           ELSE \E status_counts \in ValueCounts(rows),
                   role_grp \in SortByRate(RoleGroups(rows)),
                   top_rank \in TopRanking(rows) :
                \E top_co \in SortByCount(top_rank) :
                dash' = [done |-> TRUE, start_date |-> start_date, end_date |-> end_date,
                         empty |-> FALSE, monthly |-> monthly,
                         status_counts |-> status_counts, role_grp |-> role_grp,
                         top_rank |-> top_rank, top_co |-> top_co]

DashInit ==
    /\ RepoInit /\ KeyIdle
    /\ \E n \in 1..MaxDfLen : df \in [1..n -> DfRows]
    /\ NewestFirst(df)
    /\ dash = NotRendered

DashNext == \E start_date \in DfDays, end_date \in DfDays : BuildDashboard(start_date, end_date)

DashSpec == DashInit /\ [][DashNext]_vars

----------------------------------------------------------------------------
(* The top companies of a DataFrame of many companies: TopSpec *)

\* the i-th company name
TopCompany(i) == <<"K", Digit(i \div 10), Digit(i % 10)>>

\* a row of company i
TopRow(i) ==
    [company_name |-> TopCompany(i), role |-> <<"Z">>, status |-> STATUS_OPTIONS[1],
     applied_date |-> DfReading(0)]

\* the number of rows of company i: companies 1 and 2 have one row, 3 and 4 two,
\* and so on, and the company named by extra has one more
TopCount(i, extra) == ((i + 1) \div 2) + (IF i = extra THEN 1 ELSE 0)

RECURSIVE Repeat(_, _)
Repeat(x, n) == IF n = 0 THEN <<>> ELSE <<x>> \o Repeat(x, n - 1)

RECURSIVE Blocks(_, _, _)
\* the rows of companies i .. m, company by company
Blocks(i, m, extra) ==
    IF i > m THEN <<>>
    ELSE Repeat(TopRow(i), TopCount(i, extra)) \o Blocks(i + 1, m, extra)

Reverse(seq) == [i \in 1..Len(seq) |-> seq[Len(seq) + 1 - i]]

\* a frame of m companies, first company first or last company first
TopFrame(m, extra, backward) ==
    IF backward THEN Reverse(Blocks(1, m, extra)) ELSE Blocks(1, m, extra)

TopInit ==
    /\ RepoInit /\ KeyIdle
    /\ \E m \in (MaxCompanies - 1)..MaxCompanies, backward \in BOOLEAN :
        \E extra \in 0..m : df = TopFrame(m, extra, backward)
    /\ dash = NotRendered

Min(S) == CHOOSE x \in S : \A y \in S : x <= y

\* build_dashboard(df) with the filter widgets left at their default values, the
\* smallest and the largest applied_date of df
TopNext ==
    LET days == { df[i].applied_date.day : i \in 1..Len(df) }
    IN  BuildDashboard(Min(days), Max(days))

TopSpec == TopInit /\ [][TopNext]_vars

----------------------------------------------------------------------------
(* Claims about the repository, checked under Spec *)

Calls(op) == { op.calls[i] : i \in 1..Len(op.calls) }
Issued(op, name) == \E c \in Calls(op) : c.call = name

\* C1: after any sequence of create, updateStatus and delete operations, also
\* ones called with a status outside the enum, every stored record's status is
\* one of Applied, Accepted, Withdrawn, Rejected.
C1_StatusInEnum == \A r \in table : r.status \in StatusSet

\* C1 witness: records are stored and an operation was just called with a status
\* outside the enum.
C1_Witness ==
    /\ table # {}
    /\ last.op \in {"create", "update"}
    /\ last.status \notin StatusSet
    /\ ~last.missing

\* C2: updateStatus with a status outside the enum returns failure, issues no
\* update to the Record Store, and leaves every stored record as it was.
C2_InvalidUpdateRejected ==
    [][ (last'.op = "update" /\ last'.status \notin StatusSet)
        => (last'.ret = "False" /\ ~Issued(last', "update") /\ table' = table) ]_vars

\* C2 witness: an update of an existing record with a status outside the enum
\* has returned False.
C2_Witness ==
    /\ last.op = "update"
    /\ last.status \notin StatusSet
    /\ Exists(last.app_id)
    /\ last.ret = "False"

\* C3: a create whose company or role is empty is rejected without contacting
\* the store: no blob is uploaded and no row is inserted, even when a resume
\* file was supplied.
C3_EmptyFieldRejected ==
    [][ (last'.op = "create" /\ last'.missing)
        => (last'.ret = "Required" /\ last'.calls = <<>>
            /\ blobs' = blobs /\ table' = table) ]_vars

\* C3 witness: a create with an empty field and a resume file was rejected.
C3_Witness ==
    /\ last.op = "create"
    /\ last.missing
    /\ last.file
    /\ last.ret = "Required"

\* C4: when a create carries a resume file and the blob upload fails, the create
\* is aborted before any row insert: the records are unchanged by it.
C4_UploadFailureAborts ==
    [][ (last'.op = "create" /\ Call("upload", FALSE) \in Calls(last'))
        => (~Issued(last', "insert") /\ table' = table /\ nextId' = nextId) ]_vars

\* C4 witness: a create with a resume file whose upload failed has ended.
C4_Witness ==
    /\ last.op = "create"
    /\ last.file
    /\ last.calls = <<Call("upload", FALSE)>>

\* C5: in a delete of a record that has a resume, a failed blob removal does not
\* prevent the record deletion: the row delete is issued after it, and when that
\* succeeds the operation reports success and the record is gone.
C5_RemoveFailureDoesNotBlock ==
    (last.op = "delete" /\ Call("remove", FALSE) \in Calls(last))
    => /\ \E i, j \in 1..Len(last.calls) :
            /\ i < j
            /\ last.calls[i] = Call("remove", FALSE)
            /\ last.calls[j].call = "delete"
       /\ Call("delete", TRUE) \in Calls(last)
            => (last.ret = "True" /\ ~Exists(last.app_id))

\* C5 witness: a delete whose blob removal failed and whose row delete succeeded.
C5_Witness ==
    /\ last.op = "delete"
    /\ last.file
    /\ last.calls = <<Call("remove", FALSE), Call("delete", TRUE)>>
    /\ last.ret = "True"

\* the ids of records that were deleted: ids the store assigned, no longer stored
Deleted(app_id) == app_id \in 1..(nextId - 1) /\ ~Exists(app_id)

\* C6: after a record has been deleted, any later updateStatus or delete on the
\* same id fails (never reports success), and the Record Store is unchanged.
C6_DeletedIdFails ==
    [][ (last'.op \in {"update", "delete"} /\ Deleted(last'.app_id))
        => (last'.ret = "False" /\ table' = table) ]_vars

\* the fields of a row that no status update may change
Frame(r) == <<r.id, r.company_name, r.role, r.resume_url, r.applied_date>>

\* C7: a successful updateStatus changes only the status of the record with that
\* id; its other fields and every other record are unchanged; and no operation
\* changes the applied_date (or any field but status) of a stored record.
C7_UpdateChangesOnlyStatus ==
    [][ /\ (last'.op = "update" /\ last'.ret = "True")
            => /\ { r \in table' : r.id # last'.app_id } = { r \in table : r.id # last'.app_id }
               /\ { Frame(r) : r \in table' } = { Frame(r) : r \in table }
               /\ \A r \in table' : r.id = last'.app_id => r.status = last'.status
        /\ \A r \in table, q \in table' : r.id = q.id => Frame(r) = Frame(q) ]_vars

\* C7 witness: a successful update of one record while another record is stored,
\* at a clock reading later than the updated record's applied_date.
C7_Witness ==
    /\ last.op = "update"
    /\ last.ret = "True"
    /\ \E r, q \in table :
        /\ r.id = last.app_id
        /\ q.id # r.id
        /\ r.applied_date # now

\* C13: after any sequence of create, updateStatus and delete operations in which
\* store or blob calls may fail, every stored record with a non-null resume_url
\* refers to a blob the Blob Store still holds; a delete whose record deletion
\* fails leaves no surviving record that points at a removed blob.
C13_ResumeBlobExists ==
    \A r \in table : r.resume_url # None => RemovalKey(r.resume_url) \in blobs

----------------------------------------------------------------------------
(* Claim about the storage keys, checked under KeySpec *)

\* C8 as stated: two uploads get the same storage key only if they have the same
\* company name, the same file name and the same second of upload; uploads that
\* differ in any of the three get distinct keys.
C8_KeysInjective ==
    keyOut # <<>> => (keyOut[1] = keyOut[2] => keyIn[1] = keyIn[2])

\* C8 amended: two uploads whose company names are equal once spaces are replaced
\* by underscores get the same key exactly when they have the same file name and
\* the same second of upload; company names that differ only by a space against
\* an underscore do not keep the keys apart.
C8_KeysDistinctPerCompany ==
    (keyOut # <<>>
     /\ Replace(keyIn[1].company_name, " ", "_") = Replace(keyIn[2].company_name, " ", "_"))
    => (keyOut[1] = keyOut[2]
        <=> (keyIn[1].file_name = keyIn[2].file_name /\ keyIn[1].t = keyIn[2].t))

\* C8 witness: two uploads for the same company and file at different seconds got
\* different keys.
C8_Witness ==
    /\ keyOut # <<>>
    /\ keyIn[1].company_name = keyIn[2].company_name
    /\ keyIn[1].file_name = keyIn[2].file_name
    /\ keyIn[1].t # keyIn[2].t
    /\ keyOut[1] # keyOut[2]

----------------------------------------------------------------------------
(* Claims about the dashboard, checked under DashSpec *)

\* the rows of df whose applied_date, as a date, lies in [start_date, end_date]
InDateRange(r) == dash.start_date <= r.applied_date.day /\ r.applied_date.day <= dash.end_date
Filtered == SelectSeq(df, InDateRange)

NumWithStatus(st) == Cardinality({ i \in 1..Len(Filtered) : Filtered[i].status = st })
TallyEntries(st) == { i \in 1..Len(dash.status_counts) : dash.status_counts[i].status = st }

RECURSIVE SumCounts(_)
SumCounts(entries) ==
    IF entries = <<>> THEN 0 ELSE Head(entries).count + SumCounts(Tail(entries))

FilteredRoles == { r.role : r \in Range(Filtered) }
FirstSeen(role) == CHOOSE i \in 1..Len(Filtered) :
    /\ Filtered[i].role = role
    /\ \A j \in 1..(i - 1) : Filtered[j].role # role

\* each role of the filtered rows has exactly one ranking entry, with its total,
\* its accepted count and rate = accepted / total * 100
RankingEntriesRight ==
    /\ { e.role : e \in Range(dash.role_grp) } = FilteredRoles
    /\ Len(dash.role_grp) = Cardinality(FilteredRoles)
    /\ \A e \in Range(dash.role_grp) :
        /\ e.total = Cardinality({ i \in 1..Len(Filtered) : Filtered[i].role = e.role })
        /\ e.accepted = Cardinality({ i \in 1..Len(Filtered) :
                            Filtered[i].role = e.role /\ Filtered[i].status = "Accepted" })
        /\ e.rate.den > 0
        /\ e.rate.num * e.total = e.accepted * 100 * e.rate.den

RankingAscending ==
    \A i, j \in 1..Len(dash.role_grp) :
        i < j => dash.role_grp[i].rate.num * dash.role_grp[j].rate.den
                 <= dash.role_grp[j].rate.num * dash.role_grp[i].rate.den

\* C10 as stated: the ranking holds each role of the filtered input once with its
\* (total, accepted, rate), is non-decreasing by rate, and puts roles of equal
\* rate in the order in which they are first encountered in the input.
C10_RankingTiesInInputOrder ==
    (dash.done /\ ~dash.empty)
    => /\ RankingEntriesRight
       /\ RankingAscending
       /\ \A i, j \in 1..Len(dash.role_grp) :
            (i < j /\ dash.role_grp[i].rate.num * dash.role_grp[j].rate.den
                      = dash.role_grp[j].rate.num * dash.role_grp[i].rate.den)
            => FirstSeen(dash.role_grp[i].role) < FirstSeen(dash.role_grp[j].role)

\* C10 amended: the ranking holds each distinct role of the filtered input exactly
\* once with its (total, accepted, rate = accepted/total*100) and is ordered
\* non-decreasing by rate; the order of roles of equal rate is not fixed by the
\* order in which they are first encountered.
C10_RankingByRate ==
    (dash.done /\ ~dash.empty) => (RankingEntriesRight /\ RankingAscending)

\* C10 witness: a ranking of two roles of different rates in which the role first
\* encountered in the input comes second.
C10_Witness ==
    /\ dash.done /\ ~dash.empty
    /\ Len(dash.role_grp) = 2
    /\ dash.role_grp[1].rate # dash.role_grp[2].rate
    /\ dash.role_grp[1].total + dash.role_grp[2].total = Len(Filtered)
    /\ FirstSeen(dash.role_grp[2].role) < FirstSeen(dash.role_grp[1].role)

----------------------------------------------------------------------------
(* Claim about the top companies, checked under TopSpec *)

\* the number of rows of each company of the filtered rows
CompanyTally ==
    LET rows == Filtered
    IN  [ c \in { r.company_name : r \in Range(rows) } |->
            Cardinality({ i \in 1..Len(rows) : rows[i].company_name = c }) ]

\* the row at which each company of the filtered rows is first encountered
CompanyFirstSeen ==
    LET rows == Filtered
    IN  [ c \in { r.company_name : r \in Range(rows) } |->
            CHOOSE i \in 1..Len(rows) :
                /\ rows[i].company_name = c
                /\ \A j \in 1..(i - 1) : rows[j].company_name # c ]

Ranked == { e.company : e \in Range(dash.top_rank) }

\* the ranking holds at most N entries, as many as there are companies up to N,
\* each a different company of the filtered rows with its number of applications
TopEntriesRight(tally, ranked) ==
    /\ Len(dash.top_rank) <= 10
    /\ Len(dash.top_rank) = IF Cardinality(DOMAIN tally) < 10
                            THEN Cardinality(DOMAIN tally) ELSE 10
    /\ Cardinality(ranked) = Len(dash.top_rank)
    /\ ranked \subseteq DOMAIN tally
    /\ \A e \in Range(dash.top_rank) : e.count = tally[e.company]

\* company c comes before company d in the order the claim states: the higher
\* count first, equal counts in first-encountered order
RanksBefore(c, d, tally, first) ==
    \/ tally[c] > tally[d]
    \/ tally[c] = tally[d] /\ first[c] < first[d]

\* C11 as stated: the result has at most N = 10 entries, the N companies with the
\* highest application counts ranked by descending count, ties broken by
\* first-encountered order in the input, and the displayed sequence is exactly
\* the reverse of that ranking.
C11_DisplayIsReverseOfRanking ==
    dash.done
    => /\ dash.empty => dash.top_co = <<>>
       /\ ~dash.empty =>
            LET tally == CompanyTally
                first == CompanyFirstSeen
                ranked == Ranked
            IN  /\ TopEntriesRight(tally, ranked)
                /\ \A i, j \in 1..Len(dash.top_rank) :
                        i < j => RanksBefore(dash.top_rank[i].company,
                                             dash.top_rank[j].company, tally, first)
                /\ \A c \in ranked, d \in (DOMAIN tally) \ ranked :
                        RanksBefore(c, d, tally, first)
                /\ dash.top_co = Reverse(dash.top_rank)

\* C11 amended: the result has at most N = 10 entries, each a different company of
\* the filtered input with its application count; no company left out has a
\* higher count than a company in the result; the ranking is non-increasing by
\* count, and the displayed sequence holds the same entries ordered
\* non-decreasing by count. It is a sort of the ranking, not its reversal: the
\* order of companies with equal counts is fixed neither by first-encountered
\* order in the ranking nor by the ranking in the displayed sequence.
C11_TopByCount ==
    dash.done
    => /\ dash.empty => dash.top_co = <<>>
       /\ ~dash.empty =>
            LET tally == CompanyTally
                ranked == Ranked
            IN  /\ TopEntriesRight(tally, ranked)
                /\ \A i, j \in 1..Len(dash.top_rank) :
                        i < j => dash.top_rank[i].count >= dash.top_rank[j].count
                /\ \A c \in ranked, d \in (DOMAIN tally) \ ranked : tally[c] >= tally[d]
                /\ Len(dash.top_co) = Len(dash.top_rank)
                /\ Range(dash.top_co) = Range(dash.top_rank)
                /\ \A i, j \in 1..Len(dash.top_co) :
                        i < j => dash.top_co[i].count <= dash.top_co[j].count

\* C11 witness: more than N companies, so that one is left out, with the same
\* count as a company of the ranking; the ranking follows the claimed order and
\* the displayed sequence is not its reverse.
C11_Witness ==
    /\ dash.done /\ ~dash.empty
    /\ Len(dash.top_rank) = 10
    /\ dash.top_co # Reverse(dash.top_rank)
    /\ LET tally == CompanyTally
           first == CompanyFirstSeen
           ranked == Ranked
       IN  /\ Cardinality(DOMAIN tally) > 10
           /\ \E c \in ranked, d \in (DOMAIN tally) \ ranked : tally[c] = tally[d]
           /\ \A i, j \in 1..Len(dash.top_rank) :
                i < j => RanksBefore(dash.top_rank[i].company,
                                     dash.top_rank[j].company, tally, first)

----------------------------------------------------------------------------
(* Claim about the monthly series, checked under DashSpec *)

RECURSIVE DaysBefore(_)
\* the number of days of 2024 before the first day of month m
DaysBefore(m) == IF m = 1 THEN 0 ELSE DaysBefore(m - 1) + MonthLen[m - 1]

\* the filtered rows whose applied_date lies in calendar month m of 2024
RowsInMonth(m) ==
    { i \in 1..Len(Filtered) :
        /\ DaysBefore(m) <= Filtered[i].applied_date.day
        /\ Filtered[i].applied_date.day < DaysBefore(m) + MonthLen[m] }

MonthlyEntries(m) ==
    { k \in 1..Len(dash.monthly) : dash.monthly[k].month = [year |-> 2024, month |-> m] }

\* C12: the monthly acceptance-rate series has exactly one entry per distinct
\* calendar month of applied_date present in the filtered input and none for a
\* month without a record; each entry carries that month's total, accepted and
\* rate = accepted/total*100; the entries are in chronological order, whatever
\* the order of the input rows.
C12_MonthlySeries ==
    dash.done
    => /\ \A m \in 1..12 :
            Cardinality(MonthlyEntries(m)) = IF RowsInMonth(m) = {} THEN 0 ELSE 1
       /\ \A k \in 1..Len(dash.monthly) :
            /\ \E m \in 1..12 : k \in MonthlyEntries(m)
            /\ \A m \in 1..12 : k \in MonthlyEntries(m) =>
                /\ dash.monthly[k].total = Cardinality(RowsInMonth(m))
                /\ dash.monthly[k].accepted =
                        Cardinality({ i \in RowsInMonth(m) : Filtered[i].status = "Accepted" })
                /\ dash.monthly[k].rate.den = dash.monthly[k].total
                /\ dash.monthly[k].rate.num = dash.monthly[k].accepted * 100
       /\ \A j, k \in 1..Len(dash.monthly) :
            j < k => dash.monthly[j].month.month < dash.monthly[k].month.month

\* C12 witness: a series of two months with an empty month between them, the
\* later month first in the input, and one month holding two rows of which one
\* is accepted.
C12_Witness ==
    /\ dash.done /\ ~dash.empty
    /\ Len(dash.monthly) = 2
    /\ dash.monthly[2].month.month - dash.monthly[1].month.month >= 2
    /\ 1 \in RowsInMonth(dash.monthly[2].month.month)
    /\ \E k \in 1..2 : dash.monthly[k].total = 2 /\ dash.monthly[k].accepted = 1

====
